---------------------------- MODULE Spec2Model ----------------------------
(***************************************************************************)
(* A model of the "6_metal" ray tracer: gm::Vec2iRange and its iterator    *)
(* (thirdparty/gm/gm/types/vec2iRange.h), the recursive integrator         *)
(* ComputeRayColor and the render loop of main (src/6_metal/main.cpp).     *)
(*                                                                         *)
(* Numbers.  A float is modelled in fixed point.  Colour channels, albedos *)
(* interpolation weights and direction components are counted in units of  *)
(* 1/Scale, ray parameters ("magnitudes") in units of 0.001.  Products and *)
(* quotients round down.  An int is a 32 bit two's complement integer.     *)
(***************************************************************************)
EXTENDS Integers, Sequences, FiniteSets

VARIABLES
    prog,        \* which entry point runs: "range", "color" or "main"
    \* ---- gm::Vec2iRange and the range-based for loop over it
    m_min,       \* Vec2iRange::m_min, <<x, y>>
    m_max,       \* Vec2iRange::m_max, <<x, y>>
    it,          \* iterator::m_currentValue of the loop's iterator
    lpc,         \* the for loop's position: "test", "body", "incr", "done"
                 \* (in main's body also "sample" and "calling")
    visited,     \* the values the loop body has received, in order
    increments,  \* the number of operator++ calls made
    \* ---- ComputeRayColor
    scene,       \* i_sceneObjectPtrs: a sequence of scene objects
    call,        \* the running invocation of ComputeRayColor
    stack,       \* the invocations suspended at the recursive call (line 87)
    result,      \* what the outermost invocation returned to its caller
    \* ---- main
    imageWidth, imageHeight, samplesPerPixel, rayBounceLimit,
    sampleIndex, pixelColor, image,
    invoked,     \* per pixel: ComputeRayColor invocations made by main
    completed,   \* per pixel: the invocations that have returned
    writes,      \* per pixel: assignments to the pixel's cell
    firstWrite   \* per pixel: the value of the first assignment

rangeVars == <<m_min, m_max, it, lpc, visited, increments>>
colorVars == <<scene, call, stack, result>>
mainVars  == <<imageWidth, imageHeight, samplesPerPixel, rayBounceLimit,
               sampleIndex, pixelColor, image, invoked, completed,
               writes, firstWrite>>
vars == <<prog, rangeVars, colorVars, mainVars>>

---------------------------------------------------------------------------
(* Bounds of the model.                                                    *)

\* Vec2iRange: each side of an explored range is at most this long.
MaxExtent == 3
\* ComputeRayColor: the largest bounce limit explored.
MaxBounce == 2
\* ComputeRayColor: the nesting depth at which the model stops following a
\* recursion that the code itself does not stop.
MaxDepth == 2
\* main: the largest number of pixels and of samples per pixel explored.
MaxPixels == 4
MaxSamples == 2

---------------------------------------------------------------------------
(* int                                                                     *)

\* std::numeric_limits<int>::max() and ::min()
IntMax == 2147483647
IntMin == (-IntMax) - 1

\* a + 1 in 32 bit two's complement (what the hardware's add produces)
WrapInc(a) == IF a = IntMax THEN IntMin ELSE a + 1

\* The values the expression  a + 1 < b  can take.  Signed overflow is
\* undefined: at a = INT_MAX the comparison may come out either way.
IncLess(a, b) == IF a = IntMax THEN {TRUE, FALSE} ELSE {a + 1 < b}

---------------------------------------------------------------------------
(* gm::Vec2iRange                                                          *)

\* The default constructed ("empty") range.
DefaultRange == [min |-> <<IntMax, IntMax>>, max |-> <<IntMin, IntMin>>]

\* Vec2iRange::begin: iterator( m_min, m_min, m_max )
Begin(rmin, rmax) == rmin

\* Vec2iRange::end: iterator( m_max, m_min, m_max )
End(rmin, rmax) == rmax

\* iterator::operator!=
NotEqual(a, b) == a # b

\* iterator::operator++ with the outcomes c0, c1 of its two comparisons:
\* the next m_currentValue.
IncrementWith(cur, rmin, rmax, c0, c1) ==
    IF c0 THEN <<WrapInc(cur[1]), cur[2]>>
    ELSE IF c1 THEN <<rmin[1], WrapInc(cur[2])>>
    ELSE rmax

\* A plausible slip: the row is not rewound to m_min[0] on a new line.
IncrementNoRewind(cur, rmin, rmax) ==
    { IF c0 THEN <<WrapInc(cur[1]), cur[2]>>
      ELSE IF c1 THEN <<cur[1], WrapInc(cur[2])>>
      ELSE rmax : c0 \in IncLess(cur[1], rmax[1]), c1 \in IncLess(cur[2], rmax[2]) }

\* iterator::operator++: the set of values m_currentValue can have after it.
Increment(cur, rmin, rmax) ==
    { IncrementWith(cur, rmin, rmax, c0, c1) :
        c0 \in IncLess(cur[1], rmax[1]), c1 \in IncLess(cur[2], rmax[2]) }

---------------------------------------------------------------------------
(* The range-based for loop  for ( const Vec2i& v : range ) body( v )      *)

\* it = range.begin()
LoopStart(rmin, rmax) ==
    /\ m_min = rmin
    /\ m_max = rmax
    /\ it = Begin(rmin, rmax)
    /\ lpc = "test"
    /\ visited = <<>>
    /\ increments = 0

\* it != range.end()
LoopTest ==
    /\ lpc = "test"
    /\ lpc' = IF NotEqual(it, End(m_min, m_max)) THEN "body" ELSE "done"
    /\ UNCHANGED <<m_min, m_max, it, visited, increments>>

\* ++it
LoopIncrement ==
    /\ lpc = "incr"
    /\ it' \in Increment(it, m_min, m_max)
    /\ increments' = increments + 1
    /\ lpc' = "test"
    /\ UNCHANGED <<m_min, m_max, visited>>

\* The body of a loop that only receives the value.
LoopBody ==
    /\ lpc = "body"
    /\ visited' = Append(visited, it)
    /\ lpc' = "incr"
    /\ UNCHANGED <<m_min, m_max, it, increments>>

---------------------------------------------------------------------------
(* Colours: gm::Vec3f                                                      *)

\* The fixed point unit is 1/Scale: 0.25 and 0.55 are whole multiples.
Scale == 2 * 10

Channels == 1..3
Black == <<0, 0, 0>>
White == <<Scale, Scale, Scale>>
\* gm::Vec3f( 0.5, 0.7, 1.0 )
SkyBlue == <<10, 14, 20>>

\* a * b of two fixed point numbers
Times(a, b) == (a * b) \div Scale

\* A plausible slip: the aggregate colour taken as a sum.
AggregateSum(attenuation, descendentColor) ==
    [c \in Channels |-> attenuation[c] + descendentColor[c]]

\* main.cpp 88-90: the componentwise product of attenuation and descendent.
Aggregate(attenuation, descendentColor) ==
    [c \in Channels |-> Times(attenuation[c], descendentColor[c])]

\* gm::LinearInterpolation( source, target, weight )
LinearInterpolation(source, target, weight) ==
    [c \in Channels |->
        Times(Scale - weight, source[c]) + Times(weight, target[c])]

\* A plausible slip: the weight of a gradient that runs from 0 to 1.
WeightHalf(dirY) == (dirY \div 2) + (Scale \div 2)

\* main.cpp 101: weight = 0.5f * i_ray.Direction().Y() + 1.0
Weight(dirY) == (dirY \div 2) + Scale

\* main.cpp 102
Background(dirY) == LinearInterpolation(White, SkyBlue, Weight(dirY))

---------------------------------------------------------------------------
(* Scene objects, materials, rays                                          *)

\* The scene objects: the four spheres main allocates (main.cpp 146-166)
\* and a fifth whose albedo exceeds 1 in a channel (albedos are not
\* clamped).  Each entry is the object's material.
Material(obj) ==
    CASE obj = 1 -> [kind |-> "lambert", albedo |-> <<14, 6, 6>>]
      [] obj = 2 -> [kind |-> "lambert", albedo |-> <<16, 16, 0>>]
      [] obj = 3 -> [kind |-> "metal",   albedo |-> <<16, 12, 4>>]
      [] obj = 4 -> [kind |-> "metal",   albedo |-> <<16, 16, 16>>]
      [] obj = 5 -> [kind |-> "lambert", albedo |-> <<30, 20, 10>>]

\* main.cpp 144-166: sceneObjectPtrs in push_back order
MainScene == <<1, 2, 3, 4>>

\* The objects the scenes of a direct ComputeRayColor call are built from.
PoolObjects == {1, 4, 5}

Range(seq) == {seq[i] : i \in DOMAIN seq}

\* Every ordering of every subset of the pool, the empty scene included.
Scenes ==
    {s \in UNION {[1..k -> PoolObjects] : k \in 0..Cardinality(PoolObjects)} :
        \A i, j \in DOMAIN s : i # j => s[i] # s[j]}

\* What a ray meets of one sphere: no root (<<>>) or the two roots of the
\* quadratic, smaller first, in units of 0.001.
\*   <<-1000, 0>>  a ray leaving the surface along the outward normal
\*   <<0, 1>>      the far root exactly at 0.001
\*   <<2, 5>>      a sphere ahead of the origin
\*   <<-2, 3>>     the origin inside the sphere
HitsOfRay == {<<>>, <<-1000, 0>>, <<0, 1>>, <<2, 5>>, <<-2, 3>>}

\* The Y component of a normalised direction, in units of 1/Scale.
DirYs == {-Scale, 0, Scale}

\* A ray, as far as ComputeRayColor can tell one from another: the Y of its
\* direction and what it meets of each object of the scene.
AllRays(sc) == [dirY : DirYs, roots : [Range(sc) -> HitsOfRay]]

\* The rays explored in a render.  A camera ray points up and misses every
\* sphere, or meets the last (metal) sphere; a scattered ray meets it again.
MetalRay == [dirY |-> 0,
             roots |-> [o \in Range(MainScene) |->
                           IF o = 4 THEN <<2, 5>> ELSE <<>>]]
SkyRay == [dirY |-> Scale, roots |-> [o \in Range(MainScene) |-> <<>>]]
CameraRays == {SkyRay, MetalRay}

\* The rays a call at nesting depth `depth` may be given.
Rays(sc, depth) ==
    IF prog = "main"
    THEN (IF depth = 0 THEN CameraRays ELSE {MetalRay})
    ELSE AllRays(sc)

\* raytrace::HitRecord before any Hit has written it
NoRecord == [m_magnitude |-> 0, m_material |-> 0]

\* std::numeric_limits< float >::max(), beyond every root
FloatMax == 2147483647

\* main.cpp 69: 0.001f, the lower bound of the magnitude range
Epsilon == 1

\* A plausible slip: the range starts at 0 (no shadow acne fix).
MagnitudeRangeFromZero(nearestHitMagnitude) ==
    [min |-> 0, max |-> nearestHitMagnitude]

\* A plausible slip: the upper bound is not shrunk to the nearest hit.
MagnitudeRangeNoShrink(nearestHitMagnitude) ==
    [min |-> Epsilon, max |-> FloatMax]

\* main.cpp 69-70: gm::FloatRange magnitudeRange( 0.001f, nearestHitMagnitude )
MagnitudeRange(nearestHitMagnitude) ==
    [min |-> Epsilon, max |-> nearestHitMagnitude]

\* Sphere::Hit's test of one root against the range, open at both ends
InRange(t, range) == range.min < t /\ t < range.max

\* Sphere::Hit: [hit, record].  The smaller root inside the range, else the
\* larger; the record is left as it was when neither is inside.
Hit(obj, roots, range, record) ==
    IF roots # <<>> /\ InRange(roots[1], range)
    THEN [hit |-> TRUE,
          record |-> [m_magnitude |-> roots[1], m_material |-> obj]]
    ELSE IF roots # <<>> /\ InRange(roots[2], range)
    THEN [hit |-> TRUE,
          record |-> [m_magnitude |-> roots[2], m_material |-> obj]]
    ELSE [hit |-> FALSE, record |-> record]

\* Material::Scatter: the outcomes [scattered, attenuation].  Lambert always
\* scatters; Metal absorbs when the fuzzed reflection points into the
\* surface.  The attenuation is the albedo.
Scatter(obj) ==
    {[scattered |-> b, attenuation |-> Material(obj).albedo] :
        b \in IF Material(obj).kind = "metal" THEN {TRUE, FALSE} ELSE {TRUE}}

---------------------------------------------------------------------------
(* ComputeRayColor (main.cpp 54-103)                                       *)

Idle == [pc |-> "idle"]

\* The state of an invocation at its first statement.
Invocation(ray, numRayBounces) ==
    [pc |-> "entry", ray |-> ray, i_numRayBounces |-> numRayBounces]

\* A plausible slip: the base case tests for a negative count.
NoBouncesLeftNegative(numRayBounces) == numRayBounces < 0

\* main.cpp 56: if ( i_numRayBounces == 0 )
NoBouncesLeft(numRayBounces) == numRayBounces = 0

\* A plausible slip: an absorbed ray keeps the surface colour.
AbsorbedColorAlbedo(attenuation) == attenuation

\* main.cpp 95: the colour of a ray the material absorbed
AbsorbedColor(attenuation) == Black

\* main.cpp 56-66: the base case, else the locals of the scan.
Enter ==
    /\ call.pc = "entry"
    /\ call' =
         IF NoBouncesLeft(call.i_numRayBounces)
         THEN [pc |-> "return", ray |-> call.ray,
               i_numRayBounces |-> call.i_numRayBounces,
               value |-> Black, outcome |-> "exhausted",
               objectHit |-> FALSE, hitCalls |-> 0, scatterCalls |-> 0,
               recursions |-> 0]
         ELSE [pc |-> "scan", ray |-> call.ray,
               i_numRayBounces |-> call.i_numRayBounces,
               index |-> 1, record |-> NoRecord, objectHit |-> FALSE,
               nearestHitMagnitude |-> FloatMax, hitCalls |-> 0]
    /\ UNCHANGED <<scene, stack>>

\* main.cpp 67-76: one iteration of the loop over the scene objects.
TestObject ==
    /\ call.pc = "scan"
    /\ call.index <= Len(scene)
    /\ LET obj == scene[call.index]
           magnitudeRange == MagnitudeRange(call.nearestHitMagnitude)
           h == Hit(obj, call.ray.roots[obj], magnitudeRange, call.record)
       IN call' = [call EXCEPT
                     !.index = @ + 1,
                     !.hitCalls = @ + 1,
                     !.record = h.record,
                     !.objectHit = IF h.hit THEN TRUE ELSE @,
                     !.nearestHitMagnitude =
                         IF h.hit THEN h.record.m_magnitude ELSE @]
    /\ UNCHANGED <<scene, stack>>

\* main.cpp 78-87: the material scatters the ray; recurse on the scattered
\* ray with one bounce less.
ScatterRay ==
    /\ call.pc = "scan"
    /\ call.index > Len(scene)
    /\ call.objectHit
    /\ Len(stack) < MaxDepth
    /\ \E s \in Scatter(call.record.m_material) :
         /\ s.scattered
         /\ stack' = Append(stack,
                [i_numRayBounces |-> call.i_numRayBounces,
                 attenuation |-> s.attenuation,
                 hitCalls |-> call.hitCalls])
         /\ \E scatteredRay \in Rays(scene, Len(stack) + 1) :
              call' = Invocation(scatteredRay, call.i_numRayBounces - 1)
    /\ UNCHANGED scene

\* main.cpp 92-96: the material absorbed the ray.
Absorb ==
    /\ call.pc = "scan"
    /\ call.index > Len(scene)
    /\ call.objectHit
    /\ \E s \in Scatter(call.record.m_material) :
         /\ ~s.scattered
         /\ call' = [pc |-> "return", ray |-> call.ray,
                     i_numRayBounces |-> call.i_numRayBounces,
                     value |-> AbsorbedColor(s.attenuation),
                     outcome |-> "absorbed",
                     objectHit |-> TRUE, hitCalls |-> call.hitCalls,
                     scatterCalls |-> 1, recursions |-> 0]
    /\ UNCHANGED <<scene, stack>>

\* main.cpp 99-102: nothing was hit, the background colour.
Escape ==
    /\ call.pc = "scan"
    /\ call.index > Len(scene)
    /\ ~call.objectHit
    /\ call' = [pc |-> "return", ray |-> call.ray,
                i_numRayBounces |-> call.i_numRayBounces,
                value |-> Background(call.ray.dirY),
                outcome |-> "background",
                objectHit |-> FALSE, hitCalls |-> call.hitCalls,
                scatterCalls |-> 0, recursions |-> 0]
    /\ UNCHANGED <<scene, stack>>

\* main.cpp 87-90: the recursive call returns to its caller, which returns
\* the aggregate colour.
ReturnToCaller ==
    /\ call.pc = "return"
    /\ stack # <<>>
    /\ LET caller == stack[Len(stack)]
       IN call' = [pc |-> "return",
                   i_numRayBounces |-> caller.i_numRayBounces,
                   value |-> Aggregate(caller.attenuation, call.value),
                   outcome |-> "scattered",
                   attenuation |-> caller.attenuation,
                   descendentColor |-> call.value,
                   descendentBounces |-> call.i_numRayBounces,
                   objectHit |-> TRUE, hitCalls |-> caller.hitCalls,
                   scatterCalls |-> 1, recursions |-> 1]
    /\ stack' = SubSeq(stack, 1, Len(stack) - 1)
    /\ UNCHANGED scene

\* What a step of ComputeRayColor leaves alone.
OutsideCall == <<prog, result, rangeVars, mainVars>>

---------------------------------------------------------------------------
(* The specifications                                                      *)

\* The values of the variables an entry point does not use.
NoRange ==
    /\ m_min = <<0, 0>> /\ m_max = <<0, 0>> /\ it = <<0, 0>>
    /\ lpc = "done" /\ visited = <<>> /\ increments = 0
NoColor ==
    /\ scene = <<>> /\ call = Idle /\ stack = <<>> /\ result = Black
NoMain ==
    /\ imageWidth = 0 /\ imageHeight = 0 /\ samplesPerPixel = 0
    /\ sampleIndex = 0 /\ pixelColor = Black /\ image = <<>>
    /\ invoked = <<>> /\ completed = <<>>
    /\ writes = <<>> /\ firstWrite = <<>>

\* ---- A loop over a Vec2iRange.
Origins == {-1, 0, 2}
Extents == -1..MaxExtent
ExploredRanges ==
    {DefaultRange} \cup
    {[min |-> <<x, y>>, max |-> <<x + w, y + h>>] :
        x \in Origins, y \in Origins, w \in Extents, h \in Extents}

InitRange ==
    /\ prog = "range"
    /\ \E r \in ExploredRanges : LoopStart(r.min, r.max)
    /\ NoColor /\ NoMain /\ rayBounceLimit = 0

NextRange ==
    \/ LoopTest /\ UNCHANGED <<prog, colorVars, mainVars>>
    \/ LoopBody /\ UNCHANGED <<prog, colorVars, mainVars>>
    \/ LoopIncrement /\ UNCHANGED <<prog, colorVars, mainVars>>

SpecRange == InitRange /\ [][NextRange]_vars

\* ---- One call of ComputeRayColor.
BounceLimits == -1..MaxBounce

InitColor ==
    /\ prog = "color"
    /\ scene \in Scenes
    /\ rayBounceLimit \in BounceLimits
    /\ \E ray \in Rays(scene, 0) : call = Invocation(ray, rayBounceLimit)
    /\ stack = <<>>
    /\ result = Black
    /\ NoRange /\ NoMain

\* The outermost invocation returns to the caller.
Deliver ==
    /\ call.pc = "return"
    /\ stack = <<>>
    /\ result' = call.value
    /\ call' = Idle
    /\ UNCHANGED <<scene, stack>>

NextColor ==
    \/ Enter /\ UNCHANGED OutsideCall
    \/ TestObject /\ UNCHANGED OutsideCall
    \/ ScatterRay /\ UNCHANGED OutsideCall
    \/ Absorb /\ UNCHANGED OutsideCall
    \/ Escape /\ UNCHANGED OutsideCall
    \/ ReturnToCaller /\ UNCHANGED OutsideCall
    \/ Deliver /\ UNCHANGED <<prog, rangeVars, mainVars>>

Spec == InitColor /\ [][NextColor]_vars

\* ---- main: the render loop (main.cpp 123-209).

\* ImageBuffer::Extent: the range from (0,0) to (width, height)
Extent(width, height) == [min |-> <<0, 0>>, max |-> <<width, height>>]

\* The cells of an image buffer.
Cells(width, height) == {<<x, y>> : x \in 0..(width - 1), y \in 0..(height - 1)}

\* The largest k with k * k <= n
ISqrt(n) == CHOOSE k \in 0..n : k * k <= n /\ n < (k + 1) * (k + 1)

\* gm::Clamp of a colour to c_normalizedRange
Clamp(colour) ==
    [c \in Channels |->
        IF colour[c] < 0 THEN 0 ELSE IF colour[c] > Scale THEN Scale ELSE colour[c]]

\* main.cpp 196-205: average, gamma 2, clamp
Finalize(colour, samples) ==
    Clamp([c \in Channels |-> ISqrt((colour[c] \div samples) * Scale)])

\* A plausible slip: the sample loop runs once more.
MoreSamplesInclusive(index, samples) == index <= samples

\* main.cpp 176: sampleIndex < samplesPerPixel
MoreSamples(index, samples) == index < samples

Bump(f, c) == IF c \in DOMAIN f THEN [f EXCEPT ![c] = @ + 1] ELSE f

InitMain ==
    /\ prog = "main"
    /\ imageWidth \in 1..MaxPixels
    /\ imageHeight \in 1..MaxPixels
    /\ imageWidth * imageHeight <= MaxPixels
    /\ samplesPerPixel \in 1..MaxSamples
    /\ rayBounceLimit \in BounceLimits
    /\ image = [c \in Cells(imageWidth, imageHeight) |-> Black]
    /\ scene = MainScene
    /\ LoopStart(Extent(imageWidth, imageHeight).min,
                 Extent(imageWidth, imageHeight).max)
    /\ call = Idle /\ stack = <<>> /\ result = Black
    /\ sampleIndex = 0 /\ pixelColor = Black
    /\ invoked = [c \in Cells(imageWidth, imageHeight) |-> 0]
    /\ completed = [c \in Cells(imageWidth, imageHeight) |-> 0]
    /\ writes = [c \in Cells(imageWidth, imageHeight) |-> 0]
    /\ firstWrite = [c \in Cells(imageWidth, imageHeight) |-> Black]

mainConfig == <<imageWidth, imageHeight, samplesPerPixel, rayBounceLimit>>

\* main.cpp 172-176: the body starts on pixelCoord with a zero pixelColor.
BeginPixel ==
    /\ lpc = "body"
    /\ visited' = Append(visited, it)
    /\ pixelColor' = Black
    /\ sampleIndex' = 0
    /\ lpc' = "sample"
    /\ UNCHANGED <<m_min, m_max, it, increments, colorVars, mainConfig,
                   image, invoked, completed, writes, firstWrite>>

\* main.cpp 176-193: one more sample; its ray goes to ComputeRayColor with
\* the configured bounce limit.
CastSample ==
    /\ lpc = "sample"
    /\ MoreSamples(sampleIndex, samplesPerPixel)
    /\ \E ray \in Rays(scene, 0) : call' = Invocation(ray, rayBounceLimit)
    /\ invoked' = Bump(invoked, it)
    /\ lpc' = "calling"
    /\ UNCHANGED <<m_min, m_max, it, visited, increments, scene, stack,
                   result, mainConfig, sampleIndex, pixelColor, image,
                   completed, writes, firstWrite>>

\* main.cpp 193, 176: the call returns, its colour is accumulated.
Accumulate ==
    /\ lpc = "calling"
    /\ call.pc = "return"
    /\ stack = <<>>
    /\ result' = call.value
    /\ pixelColor' = [c \in Channels |-> pixelColor[c] + call.value[c]]
    /\ sampleIndex' = sampleIndex + 1
    /\ completed' = Bump(completed, it)
    /\ call' = Idle
    /\ lpc' = "sample"
    /\ UNCHANGED <<m_min, m_max, it, visited, increments, scene, stack,
                   mainConfig, image, invoked, writes, firstWrite>>

\* main.cpp 196-208: the finalized colour is assigned to the pixel's cell.
WritePixel ==
    /\ lpc = "sample"
    /\ ~MoreSamples(sampleIndex, samplesPerPixel)
    /\ pixelColor' = Finalize(pixelColor, samplesPerPixel)
    /\ image' = IF it \in DOMAIN image
                THEN [image EXCEPT ![it] = pixelColor']
                ELSE image
    /\ firstWrite' = IF it \in DOMAIN writes /\ writes[it] = 0
                     THEN [firstWrite EXCEPT ![it] = pixelColor']
                     ELSE firstWrite
    /\ writes' = Bump(writes, it)
    /\ lpc' = "incr"
    /\ UNCHANGED <<m_min, m_max, it, visited, increments, colorVars,
                   mainConfig, sampleIndex, invoked, completed>>

NextMain ==
    \/ LoopTest /\ UNCHANGED <<prog, colorVars, mainVars>>
    \/ BeginPixel /\ UNCHANGED prog
    \/ CastSample /\ UNCHANGED prog
    \/ Enter /\ UNCHANGED OutsideCall
    \/ TestObject /\ UNCHANGED OutsideCall
    \/ ScatterRay /\ UNCHANGED OutsideCall
    \/ Absorb /\ UNCHANGED OutsideCall
    \/ Escape /\ UNCHANGED OutsideCall
    \/ ReturnToCaller /\ UNCHANGED OutsideCall
    \/ Accumulate /\ UNCHANGED prog
    \/ WritePixel /\ UNCHANGED prog
    \/ LoopIncrement /\ UNCHANGED <<prog, colorVars, mainVars>>

SpecMain == InitMain /\ [][NextMain]_vars

---------------------------------------------------------------------------
(* Properties of ComputeRayColor                                           *)

Min(S) == CHOOSE m \in S : \A x \in S : m <= x

\* The parameters at which a ray with these roots may be hit: beyond
\* 0.001 and within the initial upper bound.
Admissible(roots) == {t \in Range(roots) : Epsilon < t /\ t < FloatMax}

\* The objects of a set that the ray can hit, and the nearest parameter.
Hittable(objs, ray) == {o \in objs : Admissible(ray.roots[o]) # {}}
NearestMagnitude(objs, ray) ==
    Min(UNION {Admissible(ray.roots[o]) : o \in objs})
NearestObjects(objs, ray) ==
    {o \in objs : NearestMagnitude(objs, ray) \in Admissible(ray.roots[o])}

\* No two objects are hit at the same parameter.
DistinctMagnitudes(objs, ray) ==
    \A o1, o2 \in objs :
        o1 # o2 => Admissible(ray.roots[o1]) \cap Admissible(ray.roots[o2]) = {}

ScanDone == call.pc = "scan" /\ call.index = Len(scene) + 1
Returning == call.pc = "return"
InUnit(colour) == \A c \in Channels : 0 <= colour[c] /\ colour[c] <= Scale

\* C1: a call with i_numRayBounces = 0 returns black, whatever the ray and
\* the scene, and has called no object's Hit and no material's Scatter.
C1_NoBouncesIsBlack ==
    (Returning /\ call.i_numRayBounces = 0) =>
        /\ call.value = Black
        /\ call.hitCalls = 0
        /\ call.scatterCalls = 0

\* C1 witness: a call with no bounces left, on a ray that would hit an
\* object of the scene, has returned.
C1_Witness ==
    /\ Returning /\ call.i_numRayBounces = 0
    /\ \E o \in Range(scene) : call.ray.roots[o] = <<2, 5>>

\* C3: after the scan objectHit tells whether some object has an admissible
\* intersection, and the record holds the smallest admissible parameter and
\* the material of an object hit there.  Both are functions of the set of
\* objects, not of their order, when the parameters are pairwise distinct.
C3_NearestHitWins ==
    ScanDone =>
        LET objs == Range(scene) IN
        /\ call.objectHit <=> (Hittable(objs, call.ray) # {})
        /\ call.objectHit =>
             /\ call.record.m_magnitude = NearestMagnitude(objs, call.ray)
             /\ call.record.m_material \in NearestObjects(objs, call.ray)
             /\ DistinctMagnitudes(objs, call.ray) =>
                  NearestObjects(objs, call.ray) = {call.record.m_material}

\* C3 witness: the scan of a scene whose first object is hit farther away
\* than its second has ended on the second object's nearer hit.
C3_Witness ==
    /\ ScanDone /\ Len(scene) >= 2
    /\ call.ray.roots[scene[1]] = <<-2, 3>>
    /\ call.ray.roots[scene[2]] = <<2, 5>>
    /\ DistinctMagnitudes(Range(scene), call.ray)
    /\ call.record = [m_magnitude |-> 2, m_material |-> scene[2]]

\* C4: a call with bounces remaining returns in one of three ways: black
\* with no recursive call when the material absorbed the ray, the product of
\* the attenuation and the result of one recursive call made with one
\* bounce less, or the background colour when nothing was hit.  Scatter is
\* only called on the material of an object of the scene.
C4_ThreeOutcomes ==
    /\ (Returning /\ call.i_numRayBounces # 0) =>
         /\ call.outcome \in {"absorbed", "scattered", "background"}
         /\ call.outcome = "absorbed" =>
              /\ call.value = Black
              /\ call.objectHit /\ call.recursions = 0
         /\ call.outcome = "scattered" =>
              /\ call.value = [c \in Channels |->
                    Times(call.attenuation[c], call.descendentColor[c])]
              /\ call.descendentBounces = call.i_numRayBounces - 1
              /\ call.objectHit /\ call.recursions = 1
         /\ call.outcome = "background" =>
              /\ ~call.objectHit /\ call.recursions = 0
              /\ call.value = Background(call.ray.dirY)
    /\ (ScanDone /\ call.objectHit) => call.record.m_material \in Range(scene)

\* C4 witness: a nested call with bounces remaining has returned black
\* because the metal absorbed the ray.
C4_Witness ==
    /\ Returning /\ call.i_numRayBounces # 0
    /\ call.outcome = "absorbed"
    /\ stack # <<>>

\* C5: when the attenuation and the recursive result both have their
\* channels in [0,1], no channel of the returned colour exceeds the
\* attenuation's or the recursive result's.
C5_NoAmplification ==
    (/\ Returning /\ call.outcome = "scattered"
     /\ InUnit(call.attenuation) /\ InUnit(call.descendentColor)) =>
        \A c \in Channels :
            /\ call.value[c] <= call.attenuation[c]
            /\ call.value[c] <= call.descendentColor[c]

\* C5 witness: a scatter with attenuation and recursive result in [0,1],
\* neither of them black, has returned.
C5_Witness ==
    /\ Returning /\ call.outcome = "scattered"
    /\ InUnit(call.attenuation) /\ InUnit(call.descendentColor)
    /\ \A c \in Channels : call.attenuation[c] > 0 /\ call.descendentColor[c] > 0

\* C6: the nearest hit is never at or below 0.001: the record of a hit holds
\* a parameter beyond it that is a root of the recorded object, so a sphere
\* met at <<-2r, 0>> is not selected; and a call with bounces remaining
\* whose ray has no root beyond 0.001 returns the background.
C6_EpsilonGuard ==
    /\ (call.pc = "scan" /\ call.objectHit) =>
         /\ call.record.m_magnitude > Epsilon
         /\ call.record.m_magnitude
                \in Range(call.ray.roots[call.record.m_material])
    /\ (/\ Returning /\ call.outcome # "scattered"
        /\ call.i_numRayBounces # 0
        /\ \A o \in Range(scene) :
              \A t \in Range(call.ray.roots[o]) : t <= Epsilon) =>
         call.outcome = "background"

\* C6 witness: a ray that leaves one sphere along its normal and meets
\* another exactly at 0.001 has escaped to the background.
C6_Witness ==
    /\ Returning /\ call.outcome = "background"
    /\ call.i_numRayBounces # 0
    /\ \E o1, o2 \in Range(scene) :
          /\ call.ray.roots[o1] = <<-1000, 0>>
          /\ call.ray.roots[o2] = <<0, 1>>
    /\ \A o \in Range(scene) :
          \A t \in Range(call.ray.roots[o]) : t <= Epsilon

\* C7: the background colour is the interpolation from white to sky blue at
\* the unclamped weight 0.5 * y + 1: (0.25, 0.55, 1) for the direction
\* (0,1,0), sky blue for y = 0, (0.75, 0.85, 1) for y = -1; for y > 0 the
\* weight is beyond 1, the red channel falls below sky blue's.
C7_BackgroundGradient ==
    (Returning /\ call.outcome = "background") =>
        /\ call.ray.dirY = Scale => call.value = <<5, 11, 20>>
        /\ call.ray.dirY = 0 => call.value = SkyBlue
        /\ call.ray.dirY = -Scale => call.value = <<15, 17, 20>>
        /\ call.ray.dirY > 0 => call.value[1] < SkyBlue[1]

\* C7 witness: the ray (0,1,0) against the empty scene has returned.
C7_Witness ==
    /\ Returning /\ call.outcome = "background"
    /\ scene = <<>> /\ call.ray.dirY = Scale
    /\ call.value = <<5, 11, 20>>

---------------------------------------------------------------------------
(* Properties of Vec2iRange's iteration                                    *)

\* min.x < max.x and min.y < max.y
ProperRange == m_min[1] < m_max[1] /\ m_min[2] < m_max[2]

\* An empty range: default constructed, or max <= min in a component.
EmptyRange ==
    \/ [min |-> m_min, max |-> m_max] = DefaultRange
    \/ m_max[1] <= m_min[1]
    \/ m_max[2] <= m_min[2]

RangeWidth == m_max[1] - m_min[1]
RangeHeight == m_max[2] - m_min[2]
Rectangle ==
    {<<x, y>> : x \in m_min[1]..(m_max[1] - 1), y \in m_min[2]..(m_max[2] - 1)}

\* The k-th coordinate of the rectangle in row-major order, x fastest.
RowMajor(k) ==
    <<m_min[1] + ((k - 1) % RangeWidth), m_min[2] + ((k - 1) \div RangeWidth)>>

\* C9: the loop over a range with min < max in both components receives
\* the coordinates of the rectangle in row-major order, each exactly once
\* and no other, and its iterator equals end() after exactly width * height
\* increments and not before.
C9_RowMajorOnce ==
    (prog = "range" /\ ProperRange) =>
        /\ Len(visited) <= RangeWidth * RangeHeight
        /\ \A k \in DOMAIN visited : visited[k] = RowMajor(k)
        /\ \A k \in DOMAIN visited : visited[k] \in Rectangle
        /\ (it = End(m_min, m_max)) <=> (increments = RangeWidth * RangeHeight)
        /\ lpc = "done" =>
             /\ increments = RangeWidth * RangeHeight
             /\ \A v \in Rectangle :
                   Cardinality({k \in DOMAIN visited : visited[k] = v}) = 1

\* C9 witness: the loop over a range two or more wide and high has ended.
C9_Witness ==
    /\ prog = "range" /\ ProperRange /\ lpc = "done"
    /\ RangeWidth >= 2 /\ RangeHeight >= 2
    /\ Len(visited) = RangeWidth * RangeHeight

\* C10: the loop over an empty range runs its body zero times.
C10_EmptyRangeNoIteration ==
    (prog = "range" /\ EmptyRange) => visited = <<>>

---------------------------------------------------------------------------
(* Properties of main                                                      *)

Pixels == Cells(imageWidth, imageHeight)

\* C2: the recursive calls nested under a call main makes never exceed the
\* configured bounce limit (none when the limit is not positive).
C2_NestingWithinLimit ==
    prog = "main" =>
        Len(stack) <= (IF rayBounceLimit < 0 THEN 0 ELSE rayBounceLimit)

\* C8: in a render with positive width, height and sample count, every call
\* main makes passes the configured bounce limit; a pixel's cell is written
\* at most once, only after exactly samplesPerPixel calls were made for it
\* and have all returned, and keeps the value written; the loop body only
\* receives pixels of the image; when the loop has ended every pixel was
\* written exactly once.
C8_RenderLoop ==
    prog = "main" =>
        /\ \A p \in Pixels :
              /\ writes[p] <= 1
              /\ invoked[p] <= samplesPerPixel
              /\ completed[p] <= invoked[p]
              /\ writes[p] = 1 =>
                    /\ invoked[p] = samplesPerPixel
                    /\ completed[p] = samplesPerPixel
                    /\ image[p] = firstWrite[p]
        /\ (call.pc = "entry" /\ stack = <<>>) =>
              call.i_numRayBounces = rayBounceLimit
        /\ \A k \in DOMAIN visited : visited[k] \in Pixels
        /\ lpc = "done" => \A p \in Pixels : writes[p] = 1

\* C8 witness: a render of several pixels, two samples each, has ended with
\* a lit first pixel.
C8_Witness ==
    /\ prog = "main" /\ lpc = "done"
    /\ imageWidth * imageHeight >= 2 /\ samplesPerPixel = 2
    /\ \A p \in Pixels : writes[p] = 1 /\ completed[p] = 2
    /\ image[<<0, 0>>] # Black

===========================================================================
